---- MODULE Spec2Model ----
(***************************************************************************)
(* A model of squidle_campaign_downloader.py: the campaign -> deployment   *)
(* -> media enumeration, the metadata fan-out over a process pool, the     *)
(* manifest, and the parallel download into <root>/<deployment>/<id>.png.  *)
(***************************************************************************)
EXTENDS Integers, Sequences, FiniteSets, TLC

(***************************************************************************)
(* Bounds of the model.                                                    *)
(***************************************************************************)
\* longest campaign list given on the command line
MaxCampaigns == 2
\* a pool is only followed when it is handed at most this many inputs
MaxTasks == 2

(***************************************************************************)
(* Program constants.                                                      *)
(***************************************************************************)
results_per_page == 100

\* n_processes of imap_unordered_bar: the default of line 12, and a pool of
\* one worker (the parameter is the function's input)
WorkerCounts == {1, 8}

(***************************************************************************)
(* The remote catalog: campaigns, their deployments, the media of each     *)
(* deployment.  Ids are server-assigned integers; an image belongs to one  *)
(* deployment.                                                             *)
(***************************************************************************)
Campaigns == {"c1", "c2", "c3"}

Deployments == {10, 11}

\* the "objects" of the server's answer to the campaign filter, in server order
Matches(c) ==
  CASE c = "c1" -> <<10, 11>>
    [] c = "c2" -> <<10>>
    [] OTHER    -> << >>

\* numbers of media items a deployment may hold
MediaCounts == {0, 1, 2, 100, 150, 301}

\* id of the k-th media item of deployment d
MediaId(d, k) == d * 1000 + k

RECURSIVE Range(_, _)
\* Python's range(a, b) as a sequence: a, a+1, ..., b-1
Range(a, b) == IF a >= b THEN << >> ELSE <<a>> \o Range(a + 1, b)

\* math.ceil(a / b) for a >= 0, b > 0
Ceil(a, b) == (a + b - 1) \div b

\* all non-empty sequences over S of length at most n
SeqsUpTo(S, n) == UNION {[1..k -> S] : k \in 1..n}

RECURSIVE Flatten(_)
\* concatenation of a sequence of sequences
Flatten(ss) == IF ss = << >> THEN << >> ELSE Head(ss) \o Flatten(Tail(ss))

\* number of positions of s holding x
Count(s, x) == Cardinality({i \in DOMAIN s : s[i] = x})

\* the smaller of two numbers
Min(a, b) == IF a <= b THEN a ELSE b

(***************************************************************************)
(* The server's answers.                                                   *)
(***************************************************************************)
\* what a GET to /api/deployment may answer: a JSON body with "objects", a
\* page holding "<h1>500</h1>", or any other body that is not JSON
DeploymentAnswers == {"json", "h1_500", "not_json"}

\* what a GET to /api/media, /api/media_poses/<id> or an image URL may do
Answers == {"ok", "error"}

\* the JSON answer of /api/media for deployment d, page p, with R media items
\* in the deployment: the total and the ids of that page
MediaResponse(d, p, R) ==
  [num_results |-> R,
   objects     |-> [k \in 1..(Min(p * results_per_page, R) - Min((p - 1) * results_per_page, R))
                      |-> MediaId(d, (p - 1) * results_per_page + k)]]

\* the media object of /api/media_poses/<image_id>: the image's URL, which
\* the server may end with white space (here: for even ids)
MediaOf(image_id) == [path_best |-> [image |-> image_id, space |-> image_id % 2 = 0]]

\* the pose object of /api/media_poses/<image_id>
PoseOf(image_id) == [timestamp |-> <<"t", image_id>>, lat |-> <<"lat", image_id>>,
                     lon |-> <<"lon", image_id>>, dep |-> <<"dep", image_id>>,
                     alt |-> <<"alt", image_id>>]

\* str.rstrip() of a URL: trailing white space removed
Rstrip(u) == [u EXCEPT !.space = FALSE]

\* the bytes the server returns for a GET of URL u (u without white space)
ContentOf(u) == [bytes_of |-> u.image]

(***************************************************************************)
(* State.                                                                  *)
(***************************************************************************)
VARIABLES
  campaign_list,    \* --campaign, the ordered campaign names
  mediaCount,       \* server: number of media items of each deployment
  n_processes,      \* width of the pools
  pc,               \* where the main process is
  ci,               \* find_deployments: index of the next campaign
  answers,          \* history: the kind of answer each campaign query got
  deployment_list,  \* find_deployments' list
  di,               \* find_images_in_deployments: index of the deployment
  pages,            \* pages the inner loop has still to request
  num_results,      \* local of find_images_in_deployments
  image_ids,        \* first output list
  image_deployment, \* second output list
  requested,        \* history: <<deployment index, page, answer>> of every media request
  func,             \* the function the current pool maps
  args,             \* the inputs handed to the current pool
  task,             \* position of each input's call in the pool
  res_list,         \* results collected so far, in completion order
  database,         \* the manifest table in memory
  csv,              \* history: every manifest written to filelist.csv
  dirs,             \* deployment directories that exist under the output root
  mkdirs,           \* history: how often os.mkdir created each directory
  files,            \* the files under the output root: path -> what was written
  error             \* the exception that ended the run, or "none"

vars == <<campaign_list, mediaCount, n_processes, pc, ci, answers, deployment_list,
          di, pages, num_results, image_ids, image_deployment, requested,
          func, args, task, res_list, database, csv, dirs, mkdirs, files, error>>

serverVars == <<campaign_list, mediaCount, n_processes>>
fdVars == <<ci, answers, deployment_list>>
fiVars == <<di, pages, num_results, image_ids, image_deployment, requested>>
poolVars == <<func, args, task, res_list>>
fsVars == <<dirs, mkdirs, files>>

Init ==
  /\ campaign_list \in SeqsUpTo(Campaigns, MaxCampaigns)
  /\ mediaCount \in [Deployments -> MediaCounts]
  /\ n_processes \in WorkerCounts
  /\ pc = "find_deployments"
  /\ ci = 1
  /\ answers = << >>
  /\ deployment_list = << >>
  /\ di = 1
  /\ pages = << >>
  /\ num_results = 0
  /\ image_ids = << >>
  /\ image_deployment = << >>
  /\ requested = << >>
  /\ func = "none"
  /\ args = << >>
  /\ task = << >>
  /\ res_list = << >>
  /\ database = << >>
  /\ csv = << >>
  /\ dirs = {}
  /\ mkdirs = [d \in Deployments |-> 0]
  /\ files = [p \in {} |-> << >>]
  /\ error = "none"

(***************************************************************************)
(* The main process ends with an unhandled exception.                      *)
(***************************************************************************)
Raise(e) ==
  /\ pc' = "raised"
  /\ error' = e

(***************************************************************************)
(* find_deployments                                                        *)
(***************************************************************************)
\* AppendObjectIds that leaves out the ids the list already holds
AppendObjectIdsOnce(list, objects) ==
  list \o SelectSeq(objects, LAMBDA x : \A i \in DOMAIN list : list[i] # x)

\* the loop of lines 68-69: every object's id is appended, in answer order
AppendObjectIds(list, objects) == list \o objects

\* one iteration of the campaign loop: the query, and what is done with the answer
FindDeploymentsQuery ==
  /\ pc = "find_deployments"
  /\ ci <= Len(campaign_list)
  /\ \E a \in DeploymentAnswers :
       /\ answers' = Append(answers, a)
       /\ CASE a = "h1_500" ->
                 \* "<h1>500</h1>" in r.text: printed, nothing appended
                 /\ ci' = ci + 1
                 /\ UNCHANGED <<deployment_list, pc, error>>
            [] a = "json" ->
                 /\ deployment_list' =
                      AppendObjectIds(deployment_list, Matches(campaign_list[ci]))
                 /\ ci' = ci + 1
                 /\ UNCHANGED <<pc, error>>
            [] OTHER ->
                 \* json.loads raises on a body that is not JSON
                 /\ Raise("JSONDecodeError")
                 /\ UNCHANGED <<ci, deployment_list>>
  /\ UNCHANGED <<serverVars, fiVars, poolVars, database, csv, fsVars>>

\* return deployment_list; main goes on to find_images_in_deployments
FindDeploymentsReturn ==
  /\ pc = "find_deployments"
  /\ ci > Len(campaign_list)
  /\ pc' = "find_images_in_deployments"
  /\ UNCHANGED <<serverVars, fdVars, fiVars, poolVars, database, csv, fsVars, error>>

(***************************************************************************)
(* find_images_in_deployments                                              *)
(***************************************************************************)
\* num_pages = math.ceil(num_results / results_per_page)
NumPages(n) == Ceil(n, results_per_page)

\* a page loop that requests following pages until one comes back empty
LaterPagesUntilEmpty(num_pages) ==
  Range(2, (IF num_pages = 0 THEN 1 ELSE num_pages) + 2)

\* the pages the inner loop requests: range(2, num_pages)
LaterPages(num_pages) == Range(2, num_pages)

\* AppendPairs with the deployment appended once per page, not per object
AppendPairsPerPage(ids, deps, objects, deployment) ==
  <<ids \o objects, Append(deps, deployment)>>

\* the two appends of lines 119-121 and 139-141, one pair per object
AppendPairs(ids, deps, objects, deployment) ==
  <<ids \o objects, deps \o [k \in 1..Len(objects) |-> deployment]>>

\* json.loads of a media listing that is swallowed instead of raised
MediaListingTolerated(a) == FALSE

\* json.loads(r.text) of lines 115 and 136 raises on an answer that is not
\* JSON; nothing around it catches the exception
MediaListingRaises(a) == a = "error"

\* the totals a later page of a deployment with R items may report: the
\* catalog may have shrunk or grown since page 1 was answered
LaterNumResults(R) == {R, 0, R + 2 * results_per_page}

\* the page loop that works out its pages again from each page's num_results
RemainingPagesRecomputed(remaining, reported) ==
  Range(Head(remaining) + 1, NumPages(reported))

\* the pages left after one iteration: range(2, num_pages) was evaluated
\* once, and the num_results assigned at line 138 is not read again
RemainingPages(remaining, reported) == Tail(remaining)

\* the first request of a deployment (page 1), lines 97-123
FindImagesFirstPage ==
  /\ pc = "find_images_in_deployments"
  /\ di <= Len(deployment_list)
  /\ pages = << >>
  /\ \E a \in Answers :
       /\ requested' = Append(requested, <<di, 1, a>>)
       /\ IF ~MediaListingRaises(a)
          THEN LET deployment == deployment_list[di]
                   r == MediaResponse(deployment, 1, mediaCount[deployment])
                   new == AppendPairs(image_ids, image_deployment, r.objects, deployment)
                   later == LaterPages(NumPages(r.num_results))
               IN /\ num_results' = r.num_results
                  /\ image_ids' = new[1]
                  /\ image_deployment' = new[2]
                  /\ pages' = later
                  /\ di' = IF later = << >> THEN di + 1 ELSE di
                  /\ UNCHANGED <<pc, error>>
          ELSE /\ Raise("JSONDecodeError")
               /\ UNCHANGED <<di, pages, num_results, image_ids, image_deployment>>
  /\ UNCHANGED <<serverVars, fdVars, poolVars, database, csv, fsVars>>

\* one iteration of the page loop, lines 126-141
FindImagesLaterPage ==
  /\ pc = "find_images_in_deployments"
  /\ pages # << >>
  /\ \E a \in Answers :
       /\ requested' = Append(requested, <<di, Head(pages), a>>)
       /\ IF ~MediaListingRaises(a)
          THEN \E reported \in LaterNumResults(mediaCount[deployment_list[di]]) :
               LET deployment == deployment_list[di]
                   r == MediaResponse(deployment, Head(pages), mediaCount[deployment])
                   new == AppendPairs(image_ids, image_deployment, r.objects, deployment)
                   left == RemainingPages(pages, reported)
               IN /\ num_results' = reported
                  /\ image_ids' = new[1]
                  /\ image_deployment' = new[2]
                  /\ pages' = left
                  /\ di' = IF left = << >> THEN di + 1 ELSE di
                  /\ UNCHANGED <<pc, error>>
          ELSE /\ Raise("JSONDecodeError")
               /\ UNCHANGED <<di, pages, num_results, image_ids, image_deployment>>
  /\ UNCHANGED <<serverVars, fdVars, poolVars, database, csv, fsVars>>

(***************************************************************************)
(* imap_unordered_bar: a pool of n_processes workers maps func over args;  *)
(* the loop of lines 16-18 appends each result as its call completes.      *)
(***************************************************************************)
\* positions of a call that no worker holds
Idle == {"queued", "returned", "failed", "killed"}

\* the calls some worker is executing
Active == {i \in DOMAIN task : task[i] \notin Idle}

\* the main process is inside imap_unordered_bar's loop
Collecting == pc \in {"get_image_pose_and_url", "download"}

\* the workers exist: the pool is created and the process has not exited
PoolAlive == Collecting \/ pc = "raised"

\* CanStart that does not count the busy workers
CanStartUnbounded(i) ==
  /\ PoolAlive
  /\ i \in DOMAIN task
  /\ task[i] = "queued"
  /\ \A j \in 1..(i - 1) : task[j] # "queued"

\* CanStart with one worker fewer than n_processes
CanStartOneWorkerShort(i) ==
  /\ PoolAlive
  /\ i \in DOMAIN task
  /\ task[i] = "queued"
  /\ \A j \in 1..(i - 1) : task[j] # "queued"
  /\ Cardinality(Active) < n_processes - 1

\* a free worker takes the next input of the task queue, in submission order
CanStart(i) ==
  /\ PoolAlive
  /\ i \in DOMAIN task
  /\ task[i] = "queued"
  /\ \A j \in 1..(i - 1) : task[j] # "queued"
  /\ Cardinality(Active) < n_processes

\* Pool(n_processes) and imap_unordered(func, args): every input is queued
StartPool(f, inputs) ==
  /\ func' = f
  /\ args' = inputs
  /\ task' = [i \in DOMAIN inputs |-> "queued"]
  /\ res_list' = << >>

\* call i returned res: the loop appends it (if the main process still loops)
Completed(i, res) ==
  /\ task' = [task EXCEPT ![i] = "returned"]
  /\ res_list' = IF Collecting THEN Append(res_list, res) ELSE res_list
  /\ UNCHANGED <<pc, error, func, args>>

\* a failed call whose exception is dropped: the loop never hears of it
FailedSilently(i, e) ==
  /\ task' = [task EXCEPT ![i] = "failed"]
  /\ UNCHANGED <<pc, error, func, args, res_list>>

\* call i raised e: the exception is re-raised in the main process's loop
Failed(i, e) ==
  /\ task' = [task EXCEPT ![i] = "failed"]
  /\ IF Collecting THEN Raise(e) ELSE UNCHANGED <<pc, error>>
  /\ UNCHANGED <<func, args, res_list>>

\* AllCollected that waits for one result more than there are inputs
OneMoreCollected == Len(res_list) = Len(args) + 1

\* AllCollected that is content with the first result
FirstCollected == Len(res_list) >= Min(1, Len(args))

\* every result has been collected: p.close(), p.join(), return res_list
AllCollected == Len(res_list) = Len(args)

(***************************************************************************)
(* get_image_pose_and_url and get_info_to_database                         *)
(***************************************************************************)
\* zipped_image_ids_deployment, lines 188-190
zipped_image_ids_deployment(ids, deps) ==
  [i \in 1..Min(Len(ids), Len(deps)) |-> <<ids[i], deps[i]>>]

\* get_info_to_database with the pair unpacked the wrong way round
get_info_to_database_swapped(pair) ==
  LET image_id == pair[2]
      media == MediaOf(image_id)
      pose == PoseOf(image_id)
  IN [timestamp |-> pose.timestamp, lat |-> pose.lat, lon |-> pose.lon,
      dep |-> pose.dep, alt |-> pose.alt, image_url |-> media.path_best,
      image_id |-> image_id, deployment_id |-> pair[1]]

\* the one-row table get_info_to_database returns for a pair, lines 146-169
get_info_to_database(pair) ==
  LET image_id == pair[1]
      media == MediaOf(image_id)
      pose == PoseOf(image_id)
  IN [timestamp |-> pose.timestamp, lat |-> pose.lat, lon |-> pose.lon,
      dep |-> pose.dep, alt |-> pose.alt, image_url |-> media.path_best,
      image_id |-> image_id, deployment_id |-> pair[2]]

\* find_images_in_deployments returns; get_image_pose_and_url zips the two
\* lists and hands the pairs to the pool
FindImagesReturn ==
  /\ pc = "find_images_in_deployments"
  /\ di > Len(deployment_list)
  /\ Len(image_ids) <= MaxTasks
  /\ pc' = "get_image_pose_and_url"
  /\ StartPool("get_info_to_database",
               zipped_image_ids_deployment(image_ids, image_deployment))
  /\ UNCHANGED <<serverVars, fdVars, fiVars, database, csv, fsVars, error>>

\* a worker takes a pair and sends the GET of line 147
MetaStart(i) ==
  /\ func = "get_info_to_database"
  /\ CanStart(i)
  /\ task' = [task EXCEPT ![i] = "get"]
  /\ UNCHANGED <<serverVars, fdVars, fiVars, func, args, res_list, pc, error,
                 database, csv, fsVars>>

\* the answer arrives: the row is returned, or parsing it raises
MetaFinish(i) ==
  /\ func = "get_info_to_database"
  /\ PoolAlive
  /\ i \in DOMAIN task
  /\ task[i] = "get"
  /\ \E a \in Answers :
       IF a = "ok"
       THEN Completed(i, get_info_to_database(args[i]))
       ELSE Failed(i, "get_info_to_database")
  /\ UNCHANGED <<serverVars, fdVars, fiVars, database, csv, fsVars>>

\* imap_unordered_bar returns; lines 196-202 concatenate the rows in the
\* order of res_list
MetaReturn ==
  /\ pc = "get_image_pose_and_url"
  /\ AllCollected
  /\ database' = res_list
  /\ pc' = "to_csv"
  /\ UNCHANGED <<serverVars, fdVars, fiVars, poolVars, csv, fsVars, error>>

(***************************************************************************)
(* The manifest file and the download phase.                               *)
(***************************************************************************)
\* zipped_list, lines 261-268: one (url, deployment_id, image_id) per row
zipped_list(db) ==
  [i \in DOMAIN db |-> <<db[i].image_url, db[i].deployment_id, db[i].image_id>>]

\* lines 254-268: database.to_csv writes the manifest; the download tuples
\* are built from its columns and handed to a new pool
ToCsv ==
  /\ pc = "to_csv"
  /\ csv' = Append(csv, database)
  /\ pc' = "download"
  /\ StartPool("download_image_url", zipped_list(database))
  /\ UNCHANGED <<serverVars, fdVars, fiVars, database, fsVars, error>>

\* mkdir without exist_ok
exist_ok_missing == FALSE

\* mkdir(parents=True, exist_ok=...) of line 214
exist_ok == TRUE

\* deployment_path / (str(image_id) + ".png"), lines 212 and 216
filename(deployment_id, image_id) ==
  [dir |-> deployment_id, name |-> image_id, ext |-> "png"]

\* the file system after open(f, "wb"): f exists and is empty
Truncated(fs, f) == [g \in DOMAIN fs \cup {f} |-> IF g = f THEN << >> ELSE fs[g]]

\* the file system after handler.write(data) and the close of the with block
Written(fs, f, data) == [g \in DOMAIN fs \cup {f} |-> IF g = f THEN <<data>> ELSE fs[g]]

\* a worker takes a tuple and tests deployment_path.exists(), lines 206-213
DownloadStart(i) ==
  /\ func = "download_image_url"
  /\ CanStart(i)
  /\ task' = [task EXCEPT ![i] = IF args[i][2] \in dirs THEN "get" ELSE "mkdir"]
  /\ UNCHANGED <<serverVars, fdVars, fiVars, func, args, res_list, pc, error,
                 database, csv, fsVars>>

\* deployment_path.mkdir, line 214: os.mkdir creates the directory, and its
\* FileExistsError is swallowed only with exist_ok
DownloadMkdir(i) ==
  /\ func = "download_image_url"
  /\ PoolAlive
  /\ i \in DOMAIN task
  /\ task[i] = "mkdir"
  /\ LET d == args[i][2]
     IN IF d \notin dirs
        THEN /\ dirs' = dirs \cup {d}
             /\ mkdirs' = [mkdirs EXCEPT ![d] = @ + 1]
             /\ task' = [task EXCEPT ![i] = "get"]
             /\ UNCHANGED <<func, args, res_list, pc, error>>
        ELSE IF exist_ok
        THEN /\ task' = [task EXCEPT ![i] = "get"]
             /\ UNCHANGED <<func, args, res_list, pc, error, dirs, mkdirs>>
        ELSE /\ Failed(i, "FileExistsError")
             /\ UNCHANGED <<dirs, mkdirs>>
  /\ UNCHANGED <<serverVars, fdVars, fiVars, database, csv, files>>

\* requests.get(url.rstrip()), lines 218-219: the bytes, or a network error
DownloadGet(i) ==
  /\ func = "download_image_url"
  /\ PoolAlive
  /\ i \in DOMAIN task
  /\ task[i] = "get"
  /\ \E a \in Answers :
       IF a = "ok"
       THEN /\ task' = [task EXCEPT ![i] = "open"]
            /\ UNCHANGED <<func, args, res_list, pc, error>>
       ELSE Failed(i, "ConnectionError")
  /\ UNCHANGED <<serverVars, fdVars, fiVars, database, csv, fsVars>>

\* open(filename, "wb"), line 220: the file is created or truncated
DownloadOpen(i) ==
  /\ func = "download_image_url"
  /\ PoolAlive
  /\ i \in DOMAIN task
  /\ task[i] = "open"
  /\ files' = Truncated(files, filename(args[i][2], args[i][3]))
  /\ task' = [task EXCEPT ![i] = "write"]
  /\ UNCHANGED <<serverVars, fdVars, fiVars, func, args, res_list, pc, error,
                 database, csv, dirs, mkdirs>>

\* handler.write(img_data), the close, and return filename, lines 221-222
DownloadWrite(i) ==
  /\ func = "download_image_url"
  /\ PoolAlive
  /\ i \in DOMAIN task
  /\ task[i] = "write"
  /\ LET f == filename(args[i][2], args[i][3])
     IN /\ files' = Written(files, f, ContentOf(Rstrip(args[i][1])))
        /\ Completed(i, f)
  /\ UNCHANGED <<serverVars, fdVars, fiVars, database, csv, dirs, mkdirs>>

\* imap_unordered_bar returns to line 270; print("Done")
DownloadReturn ==
  /\ pc = "download"
  /\ AllCollected
  /\ pc' = "done"
  /\ UNCHANGED <<serverVars, fdVars, fiVars, poolVars, database, csv, fsVars, error>>

\* the unhandled exception ends the main process; the exit handler of
\* multiprocessing terminates the pool: calls in progress are killed and
\* queued inputs are never taken
AtExit ==
  /\ pc = "raised"
  /\ pc' = "exited"
  /\ task' = [i \in DOMAIN task |-> IF i \in Active THEN "killed" ELSE task[i]]
  /\ UNCHANGED <<serverVars, fdVars, fiVars, func, args, res_list, database, csv,
                 fsVars, error>>

Next ==
  \/ FindDeploymentsQuery
  \/ FindDeploymentsReturn
  \/ FindImagesFirstPage
  \/ FindImagesLaterPage
  \/ FindImagesReturn
  \/ \E i \in 1..MaxTasks : MetaStart(i)
  \/ \E i \in 1..MaxTasks : MetaFinish(i)
  \/ MetaReturn
  \/ ToCsv
  \/ \E i \in 1..MaxTasks : DownloadStart(i)
  \/ \E i \in 1..MaxTasks : DownloadMkdir(i)
  \/ \E i \in 1..MaxTasks : DownloadGet(i)
  \/ \E i \in 1..MaxTasks : DownloadOpen(i)
  \/ \E i \in 1..MaxTasks : DownloadWrite(i)
  \/ DownloadReturn
  \/ AtExit

Spec == Init /\ [][Next]_vars

(***************************************************************************)
(* Notions the properties use.                                             *)
(***************************************************************************)
\* the elements of a sequence
Elems(s) == {s[i] : i \in DOMAIN s}

\* two sequences hold the same elements, each the same number of times
SameBag(s, t) ==
  /\ Len(s) = Len(t)
  /\ \A x \in Elems(s) \cup Elems(t) : Count(s, x) = Count(t, x)

\* the (image_id, deployment_id) pairs the enumerator has produced
Pairs == zipped_image_ids_deployment(image_ids, image_deployment)

\* the (image_id, deployment_id) key of every row of a table
Keys(db) == [i \in DOMAIN db |-> <<db[i].image_id, db[i].deployment_id>>]

\* the deployment loop of find_images_in_deployments has ended
EnumerationDone ==
  /\ pc \notin {"find_deployments", "raised", "exited"} \/ func # "none"
  /\ di > Len(deployment_list)

\* get_image_pose_and_url has returned the manifest table
ManifestAssembled == pc = "to_csv" \/ csv # << >>

(***************************************************************************)
(* C1: when the enumeration is done, every query of a deployment with R    *)
(* media items has contributed exactly R pairs: each of the deployment's   *)
(* image ids once per query of the deployment, none missing.  (The code    *)
(* requests pages range(2, num_pages) and loses the last page.)            *)
(***************************************************************************)
C1_EnumeratorReturnsAllPairs ==
  EnumerationDone =>
    \A d \in Elems(deployment_list) :
      /\ Count(image_deployment, d) = mediaCount[d] * Count(deployment_list, d)
      /\ \A k \in 1..mediaCount[d] :
           Count(Pairs, <<MediaId(d, k), d>>) = Count(deployment_list, d)

(***************************************************************************)
(* C2: once the manifest is assembled, every media item of every resolved  *)
(* deployment is the key of exactly one row.  (Two campaigns resolving to  *)
(* the same deployment give two rows with the same key.)                   *)
(***************************************************************************)
C2_EveryItemOnceInManifest ==
  ManifestAssembled =>
    \A d \in Elems(deployment_list) : \A k \in 1..mediaCount[d] :
      Count(Keys(database), <<MediaId(d, k), d>>) = 1

(***************************************************************************)
(* C3: the manifest get_image_pose_and_url returns has one row per input   *)
(* pair, its keys are the input pairs as a multiset, and every row holds   *)
(* the pose and the URL of its own image_id, whatever the pool width and   *)
(* the completion order.                                                   *)
(***************************************************************************)
C3_ManifestJoinsOnIdentity ==
  ManifestAssembled =>
    /\ Len(database) = Len(Pairs)
    /\ SameBag(Keys(database), Pairs)
    /\ \A i \in DOMAIN database :
         LET row == database[i]
             pose == PoseOf(row.image_id)
         IN /\ row.image_url = MediaOf(row.image_id).path_best
            /\ <<row.timestamp, row.lat, row.lon, row.dep, row.alt>> =
                 <<pose.timestamp, pose.lat, pose.lon, pose.dep, pose.alt>>

\* witness of C3: two rows, collected in the opposite of the submission order
C3_Witness ==
  /\ pc = "done"
  /\ Len(database) = 2
  /\ Pairs[1] # Pairs[2]
  /\ Keys(database) = <<Pairs[2], Pairs[1]>>

(***************************************************************************)
(* The scheduler runs a process that can take a step: the run does not     *)
(* stop while the main process or a worker has something to do.            *)
(***************************************************************************)
Fairness == WF_vars(Next)

\* the runs on one campaign name: the pools get the same numbers of inputs
\* as with longer lists, from fewer enumerations
OneCampaignInit == Init /\ Len(campaign_list) = 1

FairSpec == OneCampaignInit /\ [][Next]_vars /\ Fairness

\* the call of func on input i returns this (get_image_pose_and_url's row,
\* download_image_url's filename)
ResultOf(i) ==
  IF func = "get_info_to_database"
  THEN get_info_to_database(args[i])
  ELSE filename(args[i][2], args[i][3])

\* imap_unordered_bar has returned the results of all its inputs, each once
PoolReturnedAll ==
  /\ pc \in {"to_csv", "done"}
  /\ \A i \in DOMAIN task : task[i] = "returned"
  /\ SameBag(res_list, [i \in DOMAIN args |-> ResultOf(i)])

(***************************************************************************)
(* C4: under fair scheduling, imap_unordered_bar on N inputs eventually    *)
(* returns a list of exactly the N results, every input called once and    *)
(* no result dropped, unless some call of the function raised.             *)
(***************************************************************************)
C4_PoolProcessesEveryInputOnce ==
  Collecting ~> (PoolReturnedAll \/ pc = "raised")

\* witness of C4: a pool of one worker has returned the results of two inputs
C4_Witness ==
  /\ PoolReturnedAll
  /\ pc = "done"
  /\ n_processes = 1
  /\ Len(res_list) = 2

(***************************************************************************)
(* C5: the list find_deployments builds is the concatenation, in campaign  *)
(* order and answer order, of the ids each campaign's query matched        *)
(* (nothing is deduplicated, nothing left out), and a campaign whose JSON  *)
(* answer holds no match lets the loop go on to the next campaign.         *)
(***************************************************************************)
C5_DeploymentsConcatenated ==
  /\ deployment_list =
       Flatten([i \in DOMAIN answers |->
                  IF answers[i] = "json" THEN Matches(campaign_list[i]) ELSE << >>])
  /\ \A i \in DOMAIN answers : answers[i] = "json" => ci > i

\* witness of C5: two campaigns matched deployment 10, which is listed twice
C5_Witness ==
  /\ pc = "find_images_in_deployments"
  /\ campaign_list = <<"c1", "c2">>
  /\ deployment_list = <<10, 11, 10>>

(***************************************************************************)
(* C6: in find_deployments an answer that is not JSON (the 500 page or any *)
(* other body) counts as zero matches: nothing is appended, nothing is     *)
(* raised, and the loop goes on to the next campaign.  (Only a body with   *)
(* "<h1>500</h1>" is tolerated; json.loads raises on any other.)           *)
(***************************************************************************)
C6_MalformedAnswerTolerated ==
  \A i \in DOMAIN answers : answers[i] # "json" => ci > i

\* the download pool is the current pool
Downloading == func = "download_image_url"

\* the file the download of row i of the manifest writes
FileOfRow(i) == filename(database[i].deployment_id, database[i].image_id)

(***************************************************************************)
(* C7: once download_image_url has returned for a manifest row, the file   *)
(* <root>/<deployment_id>/<image_id>.png exists and holds exactly the      *)
(* bytes fetched from that row's image_url, and the tuple of a download    *)
(* task is made of the three fields of one row.  (A second row with the    *)
(* same key, see C2, truncates the file after the first has returned.)     *)
(***************************************************************************)
C7_ReturnedFileHoldsBytes ==
  Downloading =>
    \A i \in DOMAIN task :
      /\ args[i] = <<database[i].image_url, database[i].deployment_id,
                     database[i].image_id>>
      /\ task[i] = "returned" =>
           /\ FileOfRow(i) \in DOMAIN files
           /\ files[FileOfRow(i)] = <<ContentOf(Rstrip(database[i].image_url))>>
           /\ FileOfRow(i).ext = "png"

(***************************************************************************)
(* C8: a download task starts only when every metadata result has been    *)
(* collected into the manifest and the manifest file has been written;     *)
(* the manifest file is written at most once, holds the manifest, and      *)
(* no step of the download phase changes it.                               *)
(***************************************************************************)
C8_DownloadAfterManifestPersisted ==
  /\ [](/\ Len(csv) <= 1
        /\ Downloading =>
             /\ Len(csv) = 1
             /\ csv[1] = database
             /\ Len(database) = Len(Pairs))
  /\ [][Downloading => csv' = csv]_vars

\* witness of C8: a download is running, and the written manifest has two rows
C8_Witness ==
  /\ Downloading
  /\ \E i \in DOMAIN task : task[i] = "write"
  /\ Len(csv) = 1
  /\ Len(csv[1]) = 2

(***************************************************************************)
(* C9: when the run has ended after a download task failed, every other    *)
(* row's download has still been executed to completion.  (The failure is  *)
(* re-raised in the main process, whose exit terminates the pool.)         *)
(***************************************************************************)
C9_FailureDoesNotHaltSiblings ==
  (Downloading /\ pc \in {"done", "exited"}) =>
    \A i \in DOMAIN task : task[i] # "failed" =>
      /\ task[i] = "returned"
      /\ FileOfRow(i) \in DOMAIN files

(***************************************************************************)
(* C10: in every interleaving of the workers' exists() and mkdir steps a   *)
(* deployment directory is created at most once, exists for every worker   *)
(* that is past its mkdir, and no worker fails on a directory that exists. *)
(***************************************************************************)
C10_MkdirSafeUnderRace ==
  /\ \A d \in Deployments : mkdirs[d] = (IF d \in dirs THEN 1 ELSE 0)
  /\ error # "FileExistsError"
  /\ Downloading =>
       \A i \in DOMAIN task :
         task[i] \in {"get", "open", "write", "returned"} => args[i][2] \in dirs

\* witness of C10: a worker found the directory absent and is about to
\* mkdir it, and a sibling has created it in between
C10_Witness ==
  /\ Downloading
  /\ \E i, j \in DOMAIN task :
       /\ i # j
       /\ task[i] = "mkdir"
       /\ task[j] \in {"get", "open", "write", "returned"}
       /\ args[i][2] = args[j][2]
       /\ args[i][3] # args[j][3]
       /\ args[i][2] \in dirs

(***************************************************************************)
(* C11: no two download tasks that are active at the same time have the    *)
(* same file open for writing; the tasks built from the manifest target    *)
(* pairwise distinct paths.  (Resolving a deployment twice gives two       *)
(* tasks for every one of its files, see C2.)                              *)
(***************************************************************************)
C11_NoTwoWritersOfOneFile ==
  Downloading =>
    \A i, j \in DOMAIN task :
      (i # j /\ task[i] = "write" /\ task[j] = "write") =>
        filename(args[i][2], args[i][3]) # filename(args[j][2], args[j][3])

\* every campaign was queried and every query was answered by the 500 page
AllQueriesServerError ==
  /\ Len(answers) = Len(campaign_list)
  /\ \A i \in DOMAIN answers : answers[i] = "h1_500"

(***************************************************************************)
(* C12: when every deployment query is answered by a server error the run  *)
(* aborts early: it never reports completion with an empty manifest file   *)
(* written.  (Each 500 page is printed and skipped; the run goes on with   *)
(* no deployment, writes an empty manifest and prints "Done".)             *)
(***************************************************************************)
C12_SystemicFailureAborts ==
  ~(AllQueriesServerError /\ pc = "done" /\ csv = << << >> >>)

\* the pages of the requests made for entry j of deployment_list, in order
PagesRequested(j) ==
  LET mine == SelectSeq(requested, LAMBDA q : q[1] = j)
  IN [k \in DOMAIN mine |-> mine[k][2]]

(***************************************************************************)
(* C13: when the enumeration is done, the requests made for each           *)
(* deployment are page 1 and then every page 2 .. num_pages, with          *)
(* num_pages = ceil(num_results / 100), each once, ascending.  (The loop   *)
(* is range(2, num_pages): page num_pages is never requested.)             *)
(***************************************************************************)
C13_PagesTwoToNumPagesRequested ==
  EnumerationDone =>
    \A j \in DOMAIN deployment_list :
      PagesRequested(j) =
        <<1>> \o Range(2, NumPages(mediaCount[deployment_list[j]]) + 1)

\* entry j of deployment_list has been dealt with: the loop is past it
Processed(j) == j \in DOMAIN deployment_list /\ j < di

(***************************************************************************)
(* C14: page 1 is requested for every deployment the loop has dealt with,  *)
(* once; when its answer reports num_results = 0 that request is the only  *)
(* one made for the deployment, no pair is appended for it, and the loop   *)
(* goes on to the next deployment.                                         *)
(***************************************************************************)
C14_FirstPageAlwaysAndOnlyWhenEmpty ==
  /\ \A j \in DOMAIN deployment_list :
       Processed(j) => Count(PagesRequested(j), 1) = 1
  /\ \A k \in DOMAIN requested :
       LET j == requested[k][1]
           d == deployment_list[j]
       IN (requested[k][3] = "ok" /\ mediaCount[d] = 0) =>
            /\ PagesRequested(j) = <<1>>
            /\ Count(image_deployment, d) = 0
            /\ Processed(j)

\* witness of C14: deployment 10 is empty; after its page 1 the loop went on
\* to deployment 11, whose item is the only pair
C14_Witness ==
  /\ pc = "find_images_in_deployments"
  /\ deployment_list = <<10, 11>>
  /\ mediaCount[10] = 0
  /\ requested = << <<1, 1, "ok">>, <<2, 1, "ok">> >>
  /\ image_ids = <<MediaId(11, 1)>>

\* some request of the media listing was answered by a body that is not JSON
MediaListingFailed == \E k \in DOMAIN requested : requested[k][3] = "error"

(***************************************************************************)
(* C15: an answer to a media-listing request that is not JSON makes the    *)
(* operation fail hard: the error ends the run, the pair list is never     *)
(* returned (no pool is ever given it), no manifest is written and no      *)
(* download starts.                                                        *)
(***************************************************************************)
C15_MediaListingErrorFailsHard ==
  MediaListingFailed =>
    /\ pc \in {"raised", "exited"}
    /\ error = "JSONDecodeError"
    /\ requested[Len(requested)][3] = "error"
    /\ func = "none"
    /\ database = << >>
    /\ csv = << >>
    /\ DOMAIN files = {}

\* witness of C15: the second deployment's listing failed after the first
\* deployment's pair had been appended; the run has ended without a manifest
C15_Witness ==
  /\ pc = "exited"
  /\ Len(requested) = 2
  /\ requested[2][3] = "error"
  /\ image_ids # << >>
  /\ csv = << >>

\* the metadata pool is the current pool
Aggregating == func = "get_info_to_database"

(***************************************************************************)
(* C16: a metadata task that fails does not vanish: a manifest file is     *)
(* only ever written with one row per input pair, and once a metadata      *)
(* task has failed the run has ended with that task's exception, without   *)
(* a manifest and without reporting success; the failed task left no row.  *)
(***************************************************************************)
C16_MetadataFailureSurfaces ==
  /\ \A k \in DOMAIN csv : Len(csv[k]) = Len(Pairs)
  /\ (Aggregating /\ \E i \in DOMAIN task : task[i] = "failed") =>
       /\ pc \in {"raised", "exited"}
       /\ error = "get_info_to_database"
       /\ csv = << >>
       /\ Len(res_list) <= Cardinality({i \in DOMAIN task : task[i] = "returned"})

\* witness of C16: of two metadata tasks one returned its row and the other
\* failed; the run has ended and no manifest was written
C16_Witness ==
  /\ Aggregating
  /\ pc = "exited"
  /\ \E i, j \in DOMAIN task : task[i] = "returned" /\ task[j] = "failed"
  /\ Len(res_list) = 1
  /\ csv = << >>

(***************************************************************************)
(* C17: at every moment at most n_processes calls of the mapped function   *)
(* are active, and the two pools are never active together: when the       *)
(* download pool is created no call of the metadata pool is running.       *)
(***************************************************************************)
C17_AtMostWActiveAndPoolsApart ==
  /\ [](Cardinality(Active) <= n_processes)
  /\ [][func' # func => Active = {}]_vars

\* witness of C17: the only worker is busy and the second input waits
C17_Witness ==
  /\ n_processes = 1
  /\ Len(task) = 2
  /\ Cardinality(Active) = 1
  /\ task[2] = "queued"

\* the objects the code read from answer k of the media listing
ObjectsRead(k) ==
  LET d == deployment_list[requested[k][1]]
  IN IF requested[k][3] = "ok"
     THEN MediaResponse(d, requested[k][2], mediaCount[d]).objects
     ELSE << >>

RequestsFixedByFirstPage(j) ==
  1 + Len(LaterPages(NumPages(mediaCount[deployment_list[j]])))

(***************************************************************************)
(* C19: the number of page requests made for a deployment is fixed by the  *)
(* num_results of its page-1 answer: whatever total a later page reports,  *)
(* the requests made and the pages still to request add up to that number  *)
(* (so the page loop is bounded), and a deployment the loop has dealt with *)
(* got exactly that many requests.                                         *)
(***************************************************************************)
C19_PageCountFixedByFirstPage ==
  /\ \A j \in DOMAIN deployment_list :
       Processed(j) => Len(PagesRequested(j)) = RequestsFixedByFirstPage(j)
  /\ (pc = "find_images_in_deployments" /\ pages # << >>) =>
       Len(PagesRequested(di)) + Len(pages) = RequestsFixedByFirstPage(di)

\* witness of C19: a later page reported another total than page 1, and the
\* loop is past the deployment after its three requests
C19_Witness ==
  /\ pc = "find_images_in_deployments"
  /\ Len(deployment_list) = 1
  /\ Processed(1)
  /\ PagesRequested(1) = <<1, 2, 3>>
  /\ num_results > mediaCount[deployment_list[1]]

\* the place of each position of the main process in the order of the stages
StageRank(p) ==
  CASE p = "find_deployments"           -> 1
    [] p = "find_images_in_deployments" -> 2
    [] p = "get_image_pose_and_url"     -> 3
    [] p = "to_csv"                     -> 4
    [] p = "download"                   -> 5
    [] p = "done"                       -> 6
    [] p = "raised"                     -> 7
    [] OTHER                            -> 8

\* the final state of a run: "Done" printed, every download task finished
RunFinished ==
  /\ pc = "done"
  /\ Downloading
  /\ Len(csv) = 1
  /\ \A i \in DOMAIN task : task[i] = "returned"

\* the enumeration produced more pairs than the model follows a pool for
BeyondMaxTasks == EnumerationDone /\ Len(image_ids) > MaxTasks

(***************************************************************************)
(* C20: under fair scheduling a run in which no request is answered by a   *)
(* malformed response or an error eventually reaches its final state, all  *)
(* download tasks finished (for the runs the model follows to the end:     *)
(* at most MaxTasks pairs), and the main process only ever moves forward   *)
(* through resolve, enumerate, aggregate, persist, download: no stage is   *)
(* entered again once left.                                                *)
(***************************************************************************)
C20_RunReachesFinalState ==
  /\ <>(RunFinished \/ error # "none" \/ BeyondMaxTasks)
  /\ [][StageRank(pc') >= StageRank(pc)]_vars

\* witness of C20: a run of one campaign has finished with two files written
C20_Witness ==
  /\ RunFinished
  /\ error = "none"
  /\ \A i \in DOMAIN answers : answers[i] = "json"
  /\ Len(task) = 2
  /\ Cardinality(DOMAIN files) = 2

\* the program's own runs: every campaign list, the pools at their default
\* width
DefaultWidthInit == Init /\ n_processes = 8

FairRunSpec == DefaultWidthInit /\ [][Next]_vars /\ Fairness

====
